---- MODULE Spec2Model ----
(***************************************************************************)
(* Model of the RBF layer of "Torch RBF/torch_rbf.py": the class RBF       *)
(* (__init__, reset_parameters, forward), the eleven basis functions and   *)
(* the catalog basis_func_dict.                                            *)
(*                                                                         *)
(* Numbers.  A tensor element is a float32.  An element is modelled by an  *)
(* exact term: an integer, one of the IEEE special values (nan, +inf,      *)
(* -inf), or a symbolic application ("exp", "sqrt", ...) of an operation   *)
(* to terms.  The operations below compute a result only through          *)
(* identities that float32 arithmetic satisfies exactly (x*1, x+0, 0*x,    *)
(* exp(0) = 1, log(1) = 0, the square root of a perfect square, small      *)
(* integer arithmetic, the IEEE rules for nan and the infinities, and the  *)
(* overflow and underflow of exp); everything else stays symbolic, so two  *)
(* terms are equal only when the code computes them by the same            *)
(* operations on the same operands.  Within the bounds of the model every  *)
(* symbolic term denotes a finite float.                                   *)
(*                                                                         *)
(* A term is a tuple whose first element is its tag:                       *)
(*   <<"int", n>>  <<"nan">>  <<"inf">>  <<"ninf">>                        *)
(*   <<"neg", a>>  <<"sqrt", a>>  <<"exp", a>>  <<"log", a>>  <<"pow2", a>>*)
(*   <<"add", a, b>>  <<"mul", a, b>>  <<"div", a, b>>                     *)
(***************************************************************************)
EXTENDS Integers, Sequences, FiniteSets, TLC

----------------------------------------------------------------------------
(* Bounds of the model *)

\* largest in_features / out_features requested at construction, and the
\* longest input vector
MaxFeatures == 2
\* largest batch size N of a forward call
MaxBatch == 2

\* float32: exp(x) is +inf from here upwards ...
ExpOverflowFrom == 89
\* ... and exp(x) is 0 for x <= -ExpUnderflowFrom
ExpUnderflowFrom == 104

----------------------------------------------------------------------------
(* float32 elements *)

Num(n) == <<"int", n>>
NaN == <<"nan">>
PosInf == <<"inf">>
NegInf == <<"ninf">>

IsInt(a) == a[1] = "int"
IsNaN(a) == a[1] = "nan"
IsInf(a) == a[1] = "inf" \/ a[1] = "ninf"
IsZero(a) == IsInt(a) /\ a[2] = 0
IsOne(a) == IsInt(a) /\ a[2] = 1

SgnInt(n) == IF n > 0 THEN 1 ELSE IF n < 0 THEN -1 ELSE 0
SgnMul(s, t) == IF s = 0 \/ t = 0 THEN 0 ELSE IF s = 2 \/ t = 2 THEN 2 ELSE s * t

\* The sign of the float a term denotes: 1, -1, 0, or 2 when the term does
\* not determine it.
RECURSIVE Sign(_)
Sign(a) ==
    CASE a[1] = "int" -> SgnInt(a[2])
      [] a[1] = "inf" -> 1
      [] a[1] = "ninf" -> -1
      [] a[1] = "sqrt" -> 1
      [] a[1] = "exp" -> 1
      [] a[1] = "neg" -> SgnMul(-1, Sign(a[2]))
      [] a[1] = "pow2" -> IF Sign(a[2]) \in {1, -1} THEN 1 ELSE 2
      [] a[1] = "mul" -> SgnMul(Sign(a[2]), Sign(a[3]))
      [] a[1] = "div" -> SgnMul(Sign(a[2]), Sign(a[3]))
      [] a[1] = "add" -> LET s == Sign(a[2])
                             t == Sign(a[3])
                         IN  IF s = t THEN s
                             ELSE IF s = 0 THEN t
                             ELSE IF t = 0 THEN s ELSE 2
      [] OTHER -> 2

\* unary minus
Neg(a) ==
    CASE IsNaN(a) -> NaN
      [] a[1] = "inf" -> NegInf
      [] a[1] = "ninf" -> PosInf
      [] IsInt(a) -> Num(-a[2])
      [] a[1] = "neg" -> a[2]
      [] OTHER -> <<"neg", a>>

\* a + b
Add(a, b) ==
    CASE IsNaN(a) \/ IsNaN(b) -> NaN
      [] IsInf(a) /\ IsInf(b) -> IF a = b THEN a ELSE NaN
      [] IsInf(a) -> a
      [] IsInf(b) -> b
      [] IsInt(a) /\ IsInt(b) -> Num(a[2] + b[2])
      [] IsZero(a) -> b
      [] IsZero(b) -> a
      [] OTHER -> <<"add", a, b>>

\* a - b
Sub(a, b) == Add(a, Neg(b))

\* a * b
Mul(a, b) ==
    CASE IsNaN(a) \/ IsNaN(b) -> NaN
      [] IsInf(a) \/ IsInf(b) ->
            LET s == SgnMul(Sign(a), Sign(b))
            IN  IF s = 0 THEN NaN
                ELSE IF s = 1 THEN PosInf
                ELSE IF s = -1 THEN NegInf ELSE <<"mul", a, b>>
      [] IsInt(a) /\ IsInt(b) -> Num(a[2] * b[2])
      [] IsZero(a) \/ IsZero(b) -> Num(0)
      [] IsOne(a) -> b
      [] IsOne(b) -> a
      [] OTHER -> <<"mul", a, b>>

\* a / b
Div(a, b) ==
    CASE IsNaN(a) \/ IsNaN(b) -> NaN
      [] IsInf(a) /\ IsInf(b) -> NaN
      [] IsInf(b) -> Num(0)
      [] IsInf(a) -> IF Sign(b) = 2 THEN <<"div", a, b>>
                     ELSE IF (Sign(a) = 1) = (Sign(b) >= 0) THEN PosInf ELSE NegInf
      [] IsZero(b) -> IF Sign(a) = 0 THEN NaN
                      ELSE IF Sign(a) = 1 THEN PosInf
                      ELSE IF Sign(a) = -1 THEN NegInf ELSE <<"div", a, b>>
      [] IsOne(b) -> a
      [] IsZero(a) /\ Sign(b) \in {1, -1} -> Num(0)
      [] IsInt(a) /\ IsInt(b) /\ b[2] > 0 /\ a[2] % b[2] = 0 -> Num(a[2] \div b[2])
      [] OTHER -> <<"div", a, b>>

\* a.pow(2)
Pow2(a) ==
    CASE IsNaN(a) -> NaN
      [] IsInf(a) -> PosInf
      [] IsInt(a) -> Num(a[2] * a[2])
      [] OTHER -> <<"pow2", a>>

IsSquare(n) == \E r \in 0..n : r * r = n
Root(n) == CHOOSE r \in 0..n : r * r = n

\* a.pow(0.5)
Sqrt(a) ==
    CASE IsNaN(a) -> NaN
      [] a[1] = "inf" -> PosInf
      [] a[1] = "ninf" -> NaN
      [] IsInt(a) -> IF a[2] < 0 THEN NaN
                     ELSE IF IsSquare(a[2]) THEN Num(Root(a[2]))
                     ELSE <<"sqrt", a>>
      [] OTHER -> <<"sqrt", a>>

\* torch.exp on one element
Exp(a) ==
    CASE IsNaN(a) -> NaN
      [] a[1] = "inf" -> PosInf
      [] a[1] = "ninf" -> Num(0)
      [] IsInt(a) -> IF a[2] = 0 THEN Num(1)
                     ELSE IF a[2] >= ExpOverflowFrom THEN PosInf
                     ELSE IF a[2] <= -ExpUnderflowFrom THEN Num(0)
                     ELSE <<"exp", a>>
      [] OTHER -> <<"exp", a>>

\* torch.log on one element
Log(a) ==
    CASE IsNaN(a) -> NaN
      [] a[1] = "inf" -> PosInf
      [] a[1] = "ninf" -> NaN
      [] IsInt(a) -> IF a[2] = 1 THEN Num(0)
                     ELSE IF a[2] = 0 THEN NegInf
                     ELSE IF a[2] < 0 THEN NaN
                     ELSE <<"log", a>>
      [] OTHER -> <<"log", a>>

----------------------------------------------------------------------------
(* Tensors: a shape and the elements, nested one sequence per dimension *)

Tensor(shape, data) == [shape |-> shape, data |-> data]

\* the value of a variable that holds no tensor
NoTensor == Tensor(<<0>>, <<>>)

\* index into a dimension that expand / broadcasting repeats when its size is 1
Ix(t, d, i) == IF t.shape[d] = 1 THEN 1 ELSE i

\* t.unsqueeze(0)
Unsqueeze0(t) == Tensor(<<1>> \o t.shape, <<t.data>>)

\* t.unsqueeze(1)
Unsqueeze1(t) ==
    Tensor(<<t.shape[1], 1>> \o Tail(t.shape), [i \in 1..t.shape[1] |-> <<t.data[i]>>])

\* whether t.expand(size) succeeds: every dimension of t has the requested
\* size or has size 1
CanExpand(t, size) ==
    /\ Len(t.shape) = Len(size)
    /\ \A d \in 1..Len(size) : t.shape[d] = size[d] \/ t.shape[d] = 1

\* t.expand(size) for a 3-dimensional t
Expand(t, size) ==
    Tensor(size, [i \in 1..size[1] |-> [j \in 1..size[2] |-> [k \in 1..size[3] |->
                     t.data[Ix(t, 1, i)][Ix(t, 2, j)][Ix(t, 3, k)]]]])

\* x - c, elementwise on 3-dimensional tensors of one shape
TSub3(x, c) ==
    Tensor(x.shape, [i \in 1..x.shape[1] |-> [j \in 1..x.shape[2] |->
                        [k \in 1..x.shape[3] |-> Sub(x.data[i][j][k], c.data[i][j][k])]]])

\* t.pow(2), elementwise on a 3-dimensional tensor
TPow2of3(t) ==
    Tensor(t.shape, [i \in 1..t.shape[1] |-> [j \in 1..t.shape[2] |->
                        [k \in 1..t.shape[3] |-> Pow2(t.data[i][j][k])]]])

RECURSIVE SumSeq(_)
SumSeq(s) == IF Len(s) = 0 THEN Num(0) ELSE Add(SumSeq(SubSeq(s, 1, Len(s) - 1)), s[Len(s)])

\* t.sum(-1) of a 3-dimensional tensor
SumLast(t) ==
    Tensor(<<t.shape[1], t.shape[2]>>,
           [i \in 1..t.shape[1] |-> [j \in 1..t.shape[2] |-> SumSeq(t.data[i][j])]])

\* the elementwise operation named op on one element
Unary(op, a) ==
    CASE op = "exp" -> Exp(a)
      [] op = "log" -> Log(a)
      [] op = "neg" -> Neg(a)
      [] op = "pow2" -> Pow2(a)
      [] op = "sqrt" -> Sqrt(a)

\* the binary operation named op on two elements
Binary(op, a, b) ==
    CASE op = "add" -> Add(a, b)
      [] op = "sub" -> Sub(a, b)
      [] op = "mul" -> Mul(a, b)
      [] op = "div" -> Div(a, b)

\* an elementwise operation on a 1-dimensional tensor
Map1(op, t) == Tensor(t.shape, [j \in 1..t.shape[1] |-> Unary(op, t.data[j])])

\* an elementwise operation on a 2-dimensional tensor
Map2(op, t) ==
    Tensor(t.shape, [i \in 1..t.shape[1] |-> [j \in 1..t.shape[2] |->
                        Unary(op, t.data[i][j])]])

\* a binary operation on 2-dimensional tensors, elementwise with broadcasting
\* of the dimensions of size 1
Zip2(op, a, b) ==
    LET n == IF a.shape[1] = 1 THEN b.shape[1] ELSE a.shape[1]
        m == IF a.shape[2] = 1 THEN b.shape[2] ELSE a.shape[2]
    IN  Tensor(<<n, m>>, [i \in 1..n |-> [j \in 1..m |->
                   Binary(op, a.data[Ix(a, 1, i)][Ix(a, 2, j)],
                              b.data[Ix(b, 1, i)][Ix(b, 2, j)])]])

\* a Python number as an operand of a tensor operation: it broadcasts to
\* every element
Scalar(v) == Tensor(<<1, 1>>, << <<v>> >>)

\* torch.ones_like(alpha)
ones_like(alpha) ==
    Tensor(alpha.shape, [i \in 1..alpha.shape[1] |-> [j \in 1..alpha.shape[2] |-> Num(1)]])

----------------------------------------------------------------------------
(* The basis functions, on a 2-dimensional tensor alpha *)

gaussian(alpha) ==
    Map2("exp", Zip2("mul", Scalar(Num(-1)), Map2("pow2", alpha)))

linear(alpha) == alpha

quadratic(alpha) == Map2("pow2", alpha)

inverse_quadratic(alpha) ==
    Zip2("div", ones_like(alpha), Zip2("add", ones_like(alpha), Map2("pow2", alpha)))

\* a multiquadric that leaves out the ones: (alpha^2)^0.5
multiquadric_without_one(alpha) == Map2("sqrt", Map2("pow2", alpha))

multiquadric(alpha) ==
    Map2("sqrt", Zip2("add", ones_like(alpha), Map2("pow2", alpha)))

inverse_multiquadric(alpha) ==
    Zip2("div", ones_like(alpha),
         Map2("sqrt", Zip2("add", ones_like(alpha), Map2("pow2", alpha))))

spline(alpha) ==
    Zip2("mul", Map2("pow2", alpha), Map2("log", Zip2("add", alpha, ones_like(alpha))))

poisson_one(alpha) ==
    Zip2("mul", Zip2("sub", alpha, ones_like(alpha)), Map2("exp", Map2("neg", alpha)))

\* ((alpha - 2*ones) / 2*ones) * alpha * exp(-alpha): the division is by 2
\* alone, its quotient is then multiplied by ones
poisson_two(alpha) ==
    LET two_ones == Zip2("mul", Scalar(Num(2)), ones_like(alpha))
        half == Zip2("div", Zip2("sub", alpha, two_ones), Scalar(Num(2)))
    IN  Zip2("mul", Zip2("mul", Zip2("mul", half, ones_like(alpha)), alpha),
             Map2("exp", Map2("neg", alpha)))

\* 3**0.5 and 5**0.5
Sqrt3 == Sqrt(Num(3))
Sqrt5 == Sqrt(Num(5))

matern32(alpha) ==
    Zip2("mul",
         Zip2("add", ones_like(alpha), Zip2("mul", Scalar(Sqrt3), alpha)),
         Map2("exp", Zip2("mul", Scalar(Neg(Sqrt3)), alpha)))

matern52(alpha) ==
    Zip2("mul",
         Zip2("add",
              Zip2("add", ones_like(alpha), Zip2("mul", Scalar(Sqrt5), alpha)),
              Zip2("mul", Scalar(Div(Num(5), Num(3))), Map2("pow2", alpha))),
         Map2("exp", Zip2("mul", Scalar(Neg(Sqrt5)), alpha)))

\* a Python value passed as basis_func: a function object or a string
Function(id) == [kind |-> "function", id |-> id]
Str(s) == [kind |-> "str", id |-> s]
NoValue == [kind |-> "none", id |-> ""]

\* a catalog whose two-word keys are spelt with underscores
basis_func_dict_underscored ==
    [name \in {"gaussian", "linear", "quadratic", "inverse_quadratic", "multiquadric",
               "inverse_multiquadric", "spline", "poisson_one", "poisson_two",
               "matern32", "matern52"} |-> Function(name)]

\* the dictionary basis_func_dict() returns
basis_func_dict ==
    [name \in {"gaussian", "linear", "quadratic", "inverse quadratic", "multiquadric",
               "inverse multiquadric", "spline", "poisson one", "poisson two",
               "matern32", "matern52"} |->
        CASE name = "gaussian" -> Function("gaussian")
          [] name = "linear" -> Function("linear")
          [] name = "quadratic" -> Function("quadratic")
          [] name = "inverse quadratic" -> Function("inverse_quadratic")
          [] name = "multiquadric" -> Function("multiquadric")
          [] name = "inverse multiquadric" -> Function("inverse_multiquadric")
          [] name = "spline" -> Function("spline")
          [] name = "poisson one" -> Function("poisson_one")
          [] name = "poisson two" -> Function("poisson_two")
          [] name = "matern32" -> Function("matern32")
          [] name = "matern52" -> Function("matern52")]

\* calling the function object f on alpha
Apply(f, alpha) ==
    CASE f.id = "gaussian" -> gaussian(alpha)
      [] f.id = "linear" -> linear(alpha)
      [] f.id = "quadratic" -> quadratic(alpha)
      [] f.id = "inverse_quadratic" -> inverse_quadratic(alpha)
      [] f.id = "multiquadric" -> multiquadric(alpha)
      [] f.id = "inverse_multiquadric" -> inverse_multiquadric(alpha)
      [] f.id = "spline" -> spline(alpha)
      [] f.id = "poisson_one" -> poisson_one(alpha)
      [] f.id = "poisson_two" -> poisson_two(alpha)
      [] f.id = "matern32" -> matern32(alpha)
      [] f.id = "matern52" -> matern52(alpha)

----------------------------------------------------------------------------
(* The program state *)

VARIABLES
    status,        \* "new" before RBF(...) is called, "live" once it returned a
                   \* layer, "failed" when it raised
    lookup,        \* the caller's catalog lookup: the key and what it gave
    in_features,   \* self.in_features
    out_features,  \* self.out_features
    centers,       \* self.centers
    log_sigmas,    \* self.log_sigmas
    basis_func,    \* self.basis_func
    lastOp,        \* the operation performed last
    input,         \* the argument of the last call, when it was forward
    output,        \* the tensor the last call returned, when forward returned
    raised         \* the exception the last operation raised, or "none"

vars == <<status, lookup, in_features, out_features, centers, log_sigmas,
          basis_func, lastOp, input, output, raised>>

layer == <<in_features, out_features, centers, log_sigmas, basis_func>>

\* the keys a caller looks up: those of the catalog and two that are not
LookupNames == DOMAIN basis_func_dict \cup {"nonexistent", "inverse_quadratic"}

\* sample vectors of length D: the origin and (3, 4, 0, ...), cut to D
\* coordinates
Points(D) ==
    { [k \in 1..D |-> Num(IF k = 1 THEN v[1] ELSE IF k = 2 THEN v[2] ELSE 0)] :
        v \in {<<0, 0>>, <<3, 4>>} }

\* values an update gives a log_sigmas entry: exp of the last underflows to 0
LogSigmaVals == {Num(0), Num(1), Num(-200)}

\* the input batches of forward: N vectors of one length
Batches ==
    UNION { { Tensor(<<N, L>>, rows) : rows \in [1..N -> Points(L)] } :
              <<N, L>> \in (1..MaxBatch) \X (0..MaxFeatures) }

\* torch.Tensor(rows, cols) then nn.init.normal_: the matrices of that shape
\* whose rows are sample vectors
CenterDraws(rows, cols) ==
    { Tensor(<<rows, cols>>, d) : d \in [1..rows -> Points(cols)] }

\* torch.Tensor(n) then nn.init.constant_(.., 0)
Zeros(n) == Tensor(<<n>>, [j \in 1..n |-> Num(0)])

Init ==
    /\ status = "new"
    /\ lookup = [name |-> "", value |-> NoValue]
    /\ in_features = 0
    /\ out_features = 0
    /\ centers = NoTensor
    /\ log_sigmas = NoTensor
    /\ basis_func = NoValue
    /\ lastOp = "none"
    /\ input = NoTensor
    /\ output = NoTensor
    /\ raised = "none"

\* basis_func_dict()[name]: the caller's lookup of a basis function by name
CatalogLookup(name) ==
    /\ status = "new"
    /\ lookup.name = ""
    /\ lastOp' = "lookup"
    /\ IF name \in DOMAIN basis_func_dict
       THEN /\ lookup' = [name |-> name, value |-> basis_func_dict[name]]
            /\ raised' = "none"
       ELSE /\ lookup' = [name |-> name, value |-> NoValue]
            /\ raised' = "UnknownBasisFunction"
    /\ UNCHANGED <<status, layer, input, output>>

\* parameters initialised with sigma = 1 written where its logarithm belongs
ResetValuesSigmaOne(outf, inf) ==
    CenterDraws(outf, inf) \X {Tensor(<<outf>>, [j \in 1..outf |-> Num(1)])}

\* RBF.reset_parameters on a layer of the given dimensions: the values the
\* two parameters may get
ResetValues(outf, inf) == CenterDraws(outf, inf) \X {Zeros(outf)}

\* RBF(inf, outf, bf)
RBF_init(inf, outf, bf) ==
    /\ status = "new"
    /\ lookup.name # ""
    /\ lastOp' = "init"
    /\ in_features' = inf
    /\ out_features' = outf
    /\ IF inf < 0 \/ outf < 0
       THEN \* torch.Tensor raises for a negative dimension (and for no other)
            /\ status' = "failed"
            /\ raised' = "InvalidArgument"
            /\ UNCHANGED <<centers, log_sigmas, basis_func>>
       ELSE /\ status' = "live"
            /\ raised' = "none"
            /\ basis_func' = bf
            /\ \E p \in ResetValues(outf, inf) :
                  centers' = p[1] /\ log_sigmas' = p[2]
    /\ UNCHANGED <<lookup, input, output>>

\* a reset_parameters that draws the centers and leaves log_sigmas alone
reset_parameters_centers_only ==
    /\ status = "live"
    /\ lastOp' = "reset_parameters"
    /\ centers' \in CenterDraws(out_features, in_features)
    /\ raised' = "none"
    /\ input' = NoTensor
    /\ output' = NoTensor
    /\ UNCHANGED <<status, lookup, in_features, out_features, log_sigmas, basis_func>>

\* layer.reset_parameters()
reset_parameters ==
    /\ status = "live"
    /\ lastOp' = "reset_parameters"
    /\ \E p \in ResetValues(out_features, in_features) :
          centers' = p[1] /\ log_sigmas' = p[2]
    /\ raised' = "none"
    /\ input' = NoTensor
    /\ output' = NoTensor
    /\ UNCHANGED <<status, lookup, in_features, out_features, basis_func>>

\* a training step assigns row j of centers
UpdateCenter(j, p) ==
    /\ status = "live"
    /\ j \in 1..centers.shape[1]
    /\ p \in Points(centers.shape[2])
    /\ p # centers.data[j]
    /\ lastOp' = "update"
    /\ centers' = [centers EXCEPT !.data[j] = p]
    /\ raised' = "none"
    /\ input' = NoTensor
    /\ output' = NoTensor
    /\ UNCHANGED <<status, lookup, in_features, out_features, log_sigmas, basis_func>>

\* a training step assigns entry j of log_sigmas
UpdateLogSigma(j, v) ==
    /\ status = "live"
    /\ j \in 1..log_sigmas.shape[1]
    /\ v # log_sigmas.data[j]
    /\ lastOp' = "update"
    /\ log_sigmas' = [log_sigmas EXCEPT !.data[j] = v]
    /\ raised' = "none"
    /\ input' = NoTensor
    /\ output' = NoTensor
    /\ UNCHANGED <<status, lookup, in_features, out_features, centers, basis_func>>

\* a call that resolves a string naming a module-level function
CallRaisesResolving(f) ==
    IF f.kind = "function" \/ f.id \in {"gaussian", "linear", "quadratic", "multiquadric",
                                        "spline", "matern32", "matern52"}
    THEN "none" ELSE "NotCallable"

\* self.basis_func(distances): the call's exception, "none" when it returns
CallRaises(f) == IF f.kind = "function" THEN "none" ELSE "NotCallable"

\* size with the two feature counts exchanged
SizeSwapped(inp) == <<inp.shape[1], in_features, out_features>>

\* size = (input.size(0), self.out_features, self.in_features)
Size(inp) == <<inp.shape[1], out_features, in_features>>

\* scaled distances that divide every column by the first centre's bandwidth
DistancesFirstSigma(x, c, sigmas) ==
    Zip2("div", Map2("sqrt", SumLast(TPow2of3(TSub3(x, c)))),
         Unsqueeze0(Map1("exp", Tensor(sigmas.shape,
                                     [j \in 1..sigmas.shape[1] |-> sigmas.data[1]]))))

\* the scaled distances forward computes from x and c
Distances(x, c, sigmas) ==
    Zip2("div", Map2("sqrt", SumLast(TPow2of3(TSub3(x, c)))), Unsqueeze0(Map1("exp", sigmas)))

\* what forward(inp) raises and returns
ForwardOutcome(inp) ==
    LET size == Size(inp)
    IN  IF ~CanExpand(Unsqueeze1(inp), size) \/ ~CanExpand(Unsqueeze0(centers), size)
        THEN [raised |-> "ShapeMismatch", output |-> NoTensor]
        ELSE LET x == Expand(Unsqueeze1(inp), size)
                 c == Expand(Unsqueeze0(centers), size)
                 distances == Distances(x, c, log_sigmas)
             IN  IF CallRaises(basis_func) = "none"
                 THEN [raised |-> "none", output |-> Apply(basis_func, distances)]
                 ELSE [raised |-> CallRaises(basis_func), output |-> NoTensor]

\* a forward that exponentiates self.log_sigmas in place (exp_) instead of
\* taking torch.exp of it
forward_exp_inplace(inp) ==
    /\ status = "live"
    /\ lastOp' = "forward"
    /\ input' = inp
    /\ LET r == ForwardOutcome(inp)
       IN  raised' = r.raised /\ output' = r.output
    /\ log_sigmas' = Map1("exp", log_sigmas)
    /\ UNCHANGED <<status, lookup, in_features, out_features, centers, basis_func>>

\* layer.forward(inp)
forward(inp) ==
    /\ status = "live"
    /\ lastOp' = "forward"
    /\ input' = inp
    /\ LET r == ForwardOutcome(inp)
       IN  raised' = r.raised /\ output' = r.output
    /\ UNCHANGED <<status, lookup, layer>>

Next ==
    \/ \E name \in LookupNames : CatalogLookup(name)
    \/ \E inf, outf \in (-1)..MaxFeatures :
          \E bf \in {lookup.value, Str(lookup.name)} \ {NoValue} : RBF_init(inf, outf, bf)
    \/ reset_parameters
    \/ \E j \in 1..MaxFeatures : \E p \in Points(in_features) : UpdateCenter(j, p)
    \/ \E j \in 1..MaxFeatures : \E v \in LogSigmaVals : UpdateLogSigma(j, v)
    \/ \E inp \in Batches : forward(inp)

Spec == Init /\ [][Next]_vars

----------------------------------------------------------------------------
(* Properties *)

\* whether the 2-dimensional tensor t has exactly n rows of m elements
HasShape2(t, n, m) ==
    /\ t.shape = <<n, m>>
    /\ Len(t.data) = n
    /\ \A i \in 1..n : Len(t.data[i]) = m

\* whether the 1-dimensional tensor t has exactly n elements
HasShape1(t, n) == t.shape = <<n>> /\ Len(t.data) = n

\* the Euclidean distance of the vectors u and v of one length
EuclidDist(u, v) == Sqrt(SumSeq([k \in 1..Len(u) |-> Pow2(Sub(u[k], v[k]))]))

\* the function object f at one scaled distance a
AtScalar(f, a) == Apply(f, Tensor(<<1, 1>>, << <<a>> >>)).data[1][1]

\* the last call was a forward of a batch whose vectors have the layer's length
MatchingForward == lastOp = "forward" /\ input.shape[2] = in_features

\* a layer of positive dimensions
Positive == in_features > 0 /\ out_features > 0

\* C1: a forward whose input vectors are not in_features long fails with
\* ShapeMismatch and returns nothing (stated for the layers of positive
\* dimensions whose basis_func is a function)
C1_MismatchFails ==
    (lastOp = "forward" /\ Positive /\ basis_func.kind = "function"
                        /\ input.shape[2] # in_features)
        => (raised = "ShapeMismatch" /\ output = NoTensor)

\* C2: a construction with in_features <= 0 or out_features <= 0 fails with
\* InvalidArgument and yields no layer
C2_NonPositiveRejected ==
    (status # "new" /\ (in_features <= 0 \/ out_features <= 0))
        => (status = "failed" /\ (lastOp = "init" => raised = "InvalidArgument"))

\* C3: the catalog has exactly the eleven keys, each mapped to the function of
\* its name, and the lookup of any other key fails with UnknownBasisFunction
C3_CatalogExact ==
    LET table == { <<"gaussian", "gaussian">>, <<"linear", "linear">>,
                   <<"quadratic", "quadratic">>,
                   <<"inverse quadratic", "inverse_quadratic">>,
                   <<"multiquadric", "multiquadric">>,
                   <<"inverse multiquadric", "inverse_multiquadric">>,
                   <<"spline", "spline">>, <<"poisson one", "poisson_one">>,
                   <<"poisson two", "poisson_two">>, <<"matern32", "matern32">>,
                   <<"matern52", "matern52">> }
    IN  /\ Cardinality(table) = 11
        /\ lookup.name # "" =>
             IF \E e \in table : e[1] = lookup.name
             THEN /\ \A e \in table : e[1] = lookup.name => lookup.value = Function(e[2])
                  /\ lastOp = "lookup" => raised = "none"
             ELSE /\ lookup.value = NoValue
                  /\ lastOp = "lookup" => raised = "UnknownBasisFunction"

C3_Witness ==
    lookup.name = "inverse_quadratic" /\ lastOp = "lookup" /\ raised = "UnknownBasisFunction"

\* C4: right after a construction with in_features > 0 and out_features > 0,
\* centers is out_features x in_features, log_sigmas has out_features entries
\* and every one of them is exactly 0, so that every bandwidth is 1
C4_InitialParameters ==
    (lastOp = "init" /\ in_features > 0 /\ out_features > 0)
        => /\ status = "live"
           /\ HasShape2(centers, out_features, in_features)
           /\ HasShape1(log_sigmas, out_features)
           /\ \A j \in 1..out_features :
                 log_sigmas.data[j] = Num(0) /\ Exp(log_sigmas.data[j]) = Num(1)

C4_Witness ==
    lastOp = "init" /\ status = "live" /\ in_features = 2 /\ out_features = 2

\* C5: a forward of N >= 1 vectors of length in_features by a layer whose
\* basis_func is a catalog function returns exactly N rows of out_features
\* columns
C5_OutputShape ==
    (MatchingForward /\ basis_func.kind = "function" /\ input.shape[1] >= 1)
        => (raised = "none" /\ HasShape2(output, input.shape[1], out_features))

C5_Witness ==
    /\ MatchingForward
    /\ basis_func = Function("matern52")
    /\ input.shape[1] = 2
    /\ in_features = 1
    /\ out_features = 2
    /\ raised = "none"

\* C6: output[i][j] of a forward is basis_func at the Euclidean distance of
\* input row i and centre j divided by exp(log_sigmas[j]); with one centre
\* (0, 0), log_sigma 0 and the linear basis the rows (0, 0), (3, 4) give 0, 5
C6_OutputFormula ==
    (MatchingForward /\ raised = "none")
        => /\ \A i \in 1..input.shape[1] : \A j \in 1..out_features :
                 output.data[i][j] =
                    AtScalar(basis_func, Div(EuclidDist(input.data[i], centers.data[j]),
                                             Exp(log_sigmas.data[j])))
           /\ ( /\ basis_func = Function("linear")
                /\ centers = Tensor(<<1, 2>>, << <<Num(0), Num(0)>> >>)
                /\ log_sigmas = Zeros(1)
                /\ input = Tensor(<<2, 2>>, << <<Num(0), Num(0)>>, <<Num(3), Num(4)>> >>) )
                 => output.data = << <<Num(0)>>, <<Num(5)>> >>

C6_Witness ==
    /\ MatchingForward
    /\ raised = "none"
    /\ basis_func = Function("linear")
    /\ centers = Tensor(<<1, 2>>, << <<Num(0), Num(0)>> >>)
    /\ log_sigmas = Zeros(1)
    /\ input = Tensor(<<2, 2>>, << <<Num(0), Num(0)>>, <<Num(3), Num(4)>> >>)
    /\ output.data = << <<Num(0)>>, <<Num(5)>> >>

\* the forward output a layer with these parameters and the function f gives
OutputWith(f) ==
    Tensor(<<input.shape[1], out_features>>,
           [i \in 1..input.shape[1] |-> [j \in 1..out_features |->
               AtScalar(f, Div(EuclidDist(input.data[i], centers.data[j]),
                               Exp(log_sigmas.data[j])))]])

\* C7 as claimed: a layer (of positive dimensions) constructed with a catalog
\* name as basis_func has a forward that succeeds and returns what the catalog
\* function of that name returns
C7_NameWorksLikeFunction ==
    (MatchingForward /\ Positive /\ basis_func.kind = "str"
                     /\ basis_func.id \in DOMAIN basis_func_dict)
        => (raised = "none" /\ output = OutputWith(basis_func_dict[basis_func.id]))

\* C7 as amended: for each catalog name, a layer constructed with the function
\* the catalog gives for the name has a forward that succeeds and returns that
\* function of the scaled distances, while a layer constructed with the name
\* string itself has a forward that raises and returns nothing
C7_FunctionWorksNameRaises ==
    (MatchingForward /\ lookup.name \in DOMAIN basis_func_dict)
        => /\ basis_func.kind = "function" =>
                 /\ basis_func = basis_func_dict[lookup.name]
                 /\ raised = "none"
                 /\ output = OutputWith(basis_func_dict[lookup.name])
           /\ basis_func.kind = "str" =>
                 /\ basis_func.id = lookup.name
                 /\ raised = "NotCallable"
                 /\ output = NoTensor

C7_Witness ==
    /\ MatchingForward
    /\ basis_func = Str("gaussian")
    /\ raised = "NotCallable"
    /\ in_features = 2

\* the values the claim gives the basis functions at alpha = 0
OneAtZero == {"gaussian", "inverse_quadratic", "multiquadric", "inverse_multiquadric",
              "matern32", "matern52"}
ZeroAtZero == {"linear", "quadratic", "spline"}

\* output[i][j] is the value the claim gives basis_func at 0
IsValueAtZero(i, j) ==
    /\ basis_func.id \in OneAtZero => output.data[i][j] = Num(1)
    /\ basis_func.id \in ZeroAtZero => output.data[i][j] = Num(0)

C9_ForwardChangesNothing ==
    [][lastOp' = "forward"
         => /\ UNCHANGED layer
            /\ raised' # "none" => output' = NoTensor
            /\ (lastOp = "forward" /\ input' = input)
                  => (output' = output /\ raised' = raised)]_vars

C9_Witness ==
    /\ lastOp = "forward"
    /\ raised = "none"
    /\ output # NoTensor
    /\ log_sigmas.data = <<Num(1), Num(-200)>>

\* the parameters have the shapes the two dimensions give
ShapesAgree ==
    /\ HasShape2(centers, out_features, in_features)
    /\ HasShape1(log_sigmas, out_features)

\* C10: in every state of a constructed layer centers is out_features x
\* in_features and log_sigmas has out_features entries, and reset_parameters
\* sets every log_sigmas entry to 0 and leaves basis_func and both dimensions
\* as they were
C10_ShapesKept ==
    /\ [](status = "live" => ShapesAgree)
    /\ [][(status = "live" /\ lastOp' = "reset_parameters")
            => /\ \A j \in 1..out_features : log_sigmas'.data[j] = Num(0)
               /\ ShapesAgree'
               /\ UNCHANGED <<basis_func, in_features, out_features>>]_vars

C10_Witness ==
    /\ lastOp = "reset_parameters"
    /\ status = "live"
    /\ out_features = 2
    /\ in_features = 2
    /\ \A j \in 1..2 : log_sigmas.data[j] = Num(0)

====
